---- MODULE Spec2Model ----
(***************************************************************************)
(* Model of ruuviscanner (src/src/ruuvitag.rs, src/src/bluetooth.rs):      *)
(*   - the Data Format 5 frame decoder                                     *)
(*     SensorDataV5::from_dbus_changed_properties and the accessors of     *)
(*     SensorDataV5, with Rust's integer widths and panics kept;           *)
(*   - the subscription bridge subscribe_ruuvitag: setup, the notification *)
(*     callback, the poll loop and the mpsc channel to the consumer.       *)
(***************************************************************************)
EXTENDS Integers, Sequences, FiniteSets, TLC

VARIABLES
    \* ---- subscription bridge (subscribe_ruuvitag) ----
    subResult,    \* what subscribe_ruuvitag gave its caller: "none" (not called), "Ok", "Err", "Panic"
    failedStep,   \* the setup call that failed during subscribe_ruuvitag ("none": all succeeded)
    registered,   \* the signal match is registered with the bus
    loopState,    \* the spawned poll loop: "none", "running", "panicked"
    panicCause,   \* which unwrap ended the poll loop: "none", "decode", "send", "process"
    pending,      \* PropertiesChanged signals received by the connection, not yet processed
    emitted,      \* number of signals the gateway has emitted so far
    chan,         \* the mpsc channel's queue of SensorDataV5
    rxAlive,      \* the Receiver exists (returned to the consumer and not dropped)
    received,     \* history: what the consumer's recv() calls returned, in order
    decoded,      \* history: readings decoded successfully by the callback, in processing order
    callbackResult, \* how the latest run of the callback ended: "none", "continue", "stop", "panic"
    \* ---- pure functions (decoder and accessors) ----
    input,        \* the argument of the function under check
    output        \* its result ("none" before the call)

bridgeVars == <<subResult, failedStep, registered, loopState, panicCause,
                pending, emitted, chan, rxAlive, received, decoded, callbackResult>>
fnVars == <<input, output>>
vars == <<subResult, failedStep, registered, loopState, panicCause,
          pending, emitted, chan, rxAlive, received, decoded, callbackResult,
          input, output>>

(***************************************************************************)
(* Rust integer arithmetic.  A value that does not fit its type is an      *)
(* "Overflow": a panic in a debug build, the wrapped value v in a release  *)
(* build.                                                                  *)
(***************************************************************************)
Pow2(n) == 2 ^ n

\* the range of a signed integer of w bits (computed from 2^(w-2): the model's own
\* integers have 32 bits)
MinSigned(w) == (-Pow2(w - 2)) * 2
MaxSigned(w) == (Pow2(w - 2) - 1) * 2 + 1
FitsSigned(n, w) == n >= MinSigned(w) /\ n <= MaxSigned(w)

\* n is in the range of an unsigned integer of w bits
FitsUnsigned(n, w) == n >= 0 /\ (n \div Pow2(w - 2)) < 4

\* two's-complement wrap of n to a signed integer of w bits
WrapSigned(n, w) ==
    IF FitsSigned(n, w) THEN n
    ELSE LET m == n % Pow2(w)
         IN  IF m > MaxSigned(w) THEN m - Pow2(w) ELSE m

\* wrap of n to an unsigned integer of w bits
WrapUnsigned(n, w) == IF FitsUnsigned(n, w) THEN n ELSE n % Pow2(w)

Value(v) == [kind |-> "Ok", v |-> v]
Overflow(v) == [kind |-> "Overflow", v |-> v]

\* an arithmetic result n in a signed type of w bits
CheckedSigned(n, w) == IF FitsSigned(n, w) THEN Value(n) ELSE Overflow(WrapSigned(n, w))

\* an arithmetic result n in an unsigned type of w bits
CheckedUnsigned(n, w) == IF FitsUnsigned(n, w) THEN Value(n) ELSE Overflow(WrapUnsigned(n, w))

\* a & b on non-negative integers, bit by bit
RECURSIVE BitAnd(_, _)
BitAnd(a, b) ==
    IF a = 0 \/ b = 0 THEN 0
    ELSE (IF a % 2 = 1 /\ b % 2 = 1 THEN 1 ELSE 0) + 2 * BitAnd(a \div 2, b \div 2)

\* a | b on non-negative integers, bit by bit
RECURSIVE BitOr(_, _)
BitOr(a, b) ==
    IF a = 0 THEN b
    ELSE IF b = 0 THEN a
    ELSE (IF a % 2 = 1 \/ b % 2 = 1 THEN 1 ELSE 0) + 2 * BitOr(a \div 2, b \div 2)

\* x << n in u16 (bits shifted out are lost)
ShlU16(x, n) == (x * Pow2(n)) % Pow2(16)

\* x >> n on an unsigned value
Shr(x, n) == x \div Pow2(n)

\* `x as i16` of a u16, `x as i8` of a u16, `x as u8` of an i64
AsI16(x) == WrapSigned(x, 16)
AsI8(x) == WrapSigned(x, 8)
AsU8(x) == WrapUnsigned(x, 8)

BATTERY_OFFSET == 1600
TX_POWER_OFFSET == -40
PAYLOAD_LEN == 24

\* the mutant: the two bytes joined little-endian
join_u8_swapped(left, right) == BitOr(ShlU16(right, 8), left)

\* fn join_u8(left: u8, right: u8) -> u16 { (left as u16) << 8 | right as u16 }
join_u8(left, right) == BitOr(ShlU16(left, 8), right)

(***************************************************************************)
(* D-Bus argument values (dbus::arg::RefArg) as the decoder sees them:     *)
(* an integer (as_i64 is Some, as_iter is None), a string (both None) or   *)
(* an iterable (as_iter is Some: an array, a dictionary iterated as key,   *)
(* value, key, value, ..., or a Variant iterated as its one inner value).  *)
(***************************************************************************)
Int64(n) == [k |-> "int", n |-> n, items |-> <<>>]
Str == [k |-> "str", n |-> 0, items |-> <<>>]
List(xs) == [k |-> "list", n |-> 0, items |-> xs]

None == [some |-> FALSE, v |-> 0, items |-> <<>>]

\* RefArg::as_iter
as_iter(x) == IF x.k = "list" THEN [some |-> TRUE, v |-> 0, items |-> x.items] ELSE None

\* RefArg::as_i64
as_i64(x) == IF x.k = "int" THEN [some |-> TRUE, v |-> x.n, items |-> <<>>] ELSE None

(***************************************************************************)
(* SensorDataV5 and Acceleration.                                          *)
(***************************************************************************)
\* Acceleration::new
Acceleration_new(x, y, z) == [x |-> x, y |-> y, z |-> z]

\* SensorDataV5::new
SensorDataV5_new(temperature, humidity, pressure, acceleration, power_info, movement_counter, measurement_number, mac) ==
    [temperature |-> temperature, humidity |-> humidity, pressure |-> pressure,
     acceleration |-> acceleration, power_info |-> power_info,
     movement_counter |-> movement_counter,
     measurement_number |-> measurement_number, mac |-> mac]

\* Result<SensorDataV5, String>, or the panic of an unwrap or of an index
DecodeOk(r) == [kind |-> "Ok", detail |-> "", reading |-> <<r>>]
DecodeErr(msg) == [kind |-> "Err", detail |-> msg, reading |-> <<>>]
DecodePanic(what) == [kind |-> "Panic", detail |-> what, reading |-> <<>>]

\* temp[i], i counted from 0 as in the source
At(temp, i) == temp[i + 1]

\* the indices of temp that the decoder reads
ReadIndices == 0 .. 23

\* the mutant: only payloads that are too long are refused
LengthMismatchOnlyLonger(temp) == Len(temp) > PAYLOAD_LEN

\* if temp.len() != 24
LengthMismatch(temp) == Len(temp) # PAYLOAD_LEN

\* the fields read from the 24 bytes
DecodeFields(temp) ==
    SensorDataV5_new(
        AsI16(join_u8(At(temp, 1), At(temp, 2))),
        join_u8(At(temp, 3), At(temp, 4)),
        join_u8(At(temp, 5), At(temp, 6)),
        Acceleration_new(AsI16(join_u8(At(temp, 7), At(temp, 8))),
                         AsI16(join_u8(At(temp, 9), At(temp, 10))),
                         AsI16(join_u8(At(temp, 11), At(temp, 12)))),
        join_u8(At(temp, 13), At(temp, 14)),
        At(temp, 15),
        join_u8(At(temp, 16), At(temp, 17)),
        <<At(temp, 18), At(temp, 19), At(temp, 20), At(temp, 21), At(temp, 22), At(temp, 23)>>)

\* the payload bytes: temp.push(item.as_i64().unwrap() as u8) for each item
CollectBytes(items) == [i \in 1 .. Len(items) |-> AsU8(as_i64(items[i]).v)]

\* from the collected bytes on: the length check, then the indexed reads
DecodePayload(temp) ==
    IF LengthMismatch(temp) THEN DecodeErr("Missing manufacturer data")
    ELSE IF \E i \in ReadIndices : i >= Len(temp) THEN DecodePanic("index out of bounds")
    ELSE DecodeOk(DecodeFields(temp))

\* SensorDataV5::from_dbus_changed_properties; changed_properties is a map from
\* property names to values
from_dbus_changed_properties(changed_properties) ==
    IF "ManufacturerData" \notin DOMAIN changed_properties
    THEN DecodePanic("key not found")
    ELSE LET it == as_iter(changed_properties["ManufacturerData"])
         IN  IF ~it.some THEN DecodeErr("ManufacturerData couldn't be collected")
             ELSE LET data == it.items
                  IN  IF Len(data) # 2 THEN DecodeErr("Missing data in changed_properties")
                      ELSE LET inner == as_iter(data[2])
                           IN  IF ~inner.some THEN DecodePanic("unwrap on None: data[1].as_iter()")
                               ELSE IF Len(inner.items) = 0 THEN DecodePanic("unwrap on None: next()")
                               ELSE LET manufacturer_data == as_iter(inner.items[1])
                                    IN  IF ~manufacturer_data.some
                                        THEN DecodePanic("unwrap on None: manufacturer_data.as_iter()")
                                        ELSE IF \E i \in 1 .. Len(manufacturer_data.items) :
                                                    ~as_i64(manufacturer_data.items[i]).some
                                        THEN DecodePanic("unwrap on None: item.as_i64()")
                                        ELSE DecodePayload(CollectBytes(manufacturer_data.items))

(***************************************************************************)
(* Accessors of SensorDataV5.                                              *)
(***************************************************************************)
Panicked == [kind |-> "Panic", v |-> 0]

\* i32::try_from(x)
TryFromI32(x) == CheckedSigned(x, 32)

\* the mutant: the product taken in i16 (as main.rs does)
temperature_in_millicelcius_i16(self) == CheckedSigned(self.temperature * 5, 16)

\* i32::try_from(self.temperature).unwrap() * 5
temperature_in_millicelcius(self) ==
    LET t == TryFromI32(self.temperature)
    IN  IF t.kind # "Ok" THEN Panicked ELSE CheckedSigned(t.v * 5, 32)

\* an f64 quotient, kept exact as numerator and denominator
Quotient(num, den) == [num |-> num, den |-> den]

\* self.temperature_in_millicelcius() as f64 / 1000_f64
temperature_in_celcius(self) == Quotient(temperature_in_millicelcius(self).v, 1000)

\* self.humidity as f64 / 400_f64
get_humidity(self) == Quotient(self.humidity, 400)

\* 50000 + self.pressure as u32
get_pressure(self) == CheckedUnsigned(50000 + self.pressure, 32)

\* &self.acceleration
get_acceleration_in_mg(self) == self.acceleration

\* (power_info >> 5) + BATTERY_OFFSET, in u16
get_battery_voltage(self) == CheckedUnsigned(Shr(self.power_info, 5) + BATTERY_OFFSET, 16)

\* the mutant: the 5-bit field not doubled (as main.rs does)
get_tx_power_unscaled(self) ==
    CheckedSigned(AsI8(BitAnd(self.power_info, 31)) + TX_POWER_OFFSET, 8)

\* (power_info & 0x1f) as i8 * 2, then += TX_POWER_OFFSET, in i8
get_tx_power(self) ==
    LET doubled == CheckedSigned(AsI8(BitAnd(self.power_info, 31)) * 2, 8)
        sum == CheckedSigned(doubled.v + TX_POWER_OFFSET, 8)
    IN  IF doubled.kind = "Ok" THEN sum ELSE Overflow(sum.v)

\* strings are sequences of one-character strings
HexDigitsUpper == <<"0", "1", "2", "3", "4", "5", "6", "7", "8", "9", "A", "B", "C", "D", "E", "F">>

\* {:X}: uppercase hexadecimal digits of x, no leading zeros
RECURSIVE FormatHexUpper(_)
FormatHexUpper(x) ==
    IF x < 16 THEN <<HexDigitsUpper[x + 1]>>
    ELSE FormatHexUpper(x \div 16) \o <<HexDigitsUpper[(x % 16) + 1]>>

\* padding with "0" on the left up to width w
RECURSIVE ZeroPad(_, _)
ZeroPad(s, w) == IF Len(s) >= w THEN s ELSE ZeroPad(<<"0">> \o s, w)

\* the mutant: {:X}, no zero padding
FormatOctetUnpadded(x) == FormatHexUpper(x)

\* format!("{:02X}", x)
FormatOctet(x) == ZeroPad(FormatHexUpper(x), 2)

\* Vec<String>::join(sep)
RECURSIVE Join(_, _)
Join(parts, sep) ==
    IF Len(parts) = 0 THEN <<>>
    ELSE IF Len(parts) = 1 THEN parts[1]
    ELSE parts[1] \o sep \o Join(Tail(parts), sep)

\* self.mac.iter().map(|x| format!("{:02X}", x)).collect::<Vec<String>>().join(":")
mac_as_str(self) == Join([i \in 1 .. Len(self.mac) |-> FormatOctet(self.mac[i])], <<":">>)

\* what print_sensor_data prints, in its order
print_sensor_data(self) ==
    [mac |-> mac_as_str(self),
     millicelcius |-> temperature_in_millicelcius(self),
     celcius |-> temperature_in_celcius(self),
     humidity |-> get_humidity(self),
     pressure |-> get_pressure(self),
     acceleration |-> get_acceleration_in_mg(self),
     battery |-> get_battery_voltage(self),
     tx_power |-> get_tx_power(self),
     movement_counter |-> self.movement_counter,
     measurement_number |-> self.measurement_number]

(***************************************************************************)
(* Inputs of the decoder: changed_properties maps.                         *)
(***************************************************************************)
\* payload lengths 0 .. MaxPayloadLen are tried
MaxPayloadLen == 26

\* 05 12 FC 53 94 C3 7C 00 04 FF FC 04 0C AC 36 42 00 CD CB B8 33 4C 88 4F
ReferencePayload ==
    <<5, 18, 252, 83, 148, 195, 124, 0, 4, 255, 252, 4, 12, 172, 54, 66, 0, 205,
      203, 184, 51, 76, 136, 79>>

\* n bytes: the reference payload, repeated or cut
ReferenceStretch(n) == [i \in 1 .. n |-> ReferencePayload[((i - 1) % Len(ReferencePayload)) + 1]]

\* n bytes, all c
FillPayload(c, n) == [i \in 1 .. n |-> c]

\* n bytes s, 2s, 3s, ... (mod 256)
RampPayload(s, n) == [i \in 1 .. n |-> (s * i) % 256]

PayloadLengths == 0 .. MaxPayloadLen

Payloads ==
    {ReferenceStretch(n) : n \in PayloadLengths}
    \cup {FillPayload(c, n) : c \in {0, 128, 255}, n \in PayloadLengths}
    \cup {RampPayload(s, n) : s \in {1, 37, 91}, n \in PayloadLengths}

\* the bus's array of bytes
ByteArray(p) == List([i \in 1 .. Len(p) |-> Int64(p[i])])

\* a Variant: iterated, it yields its one inner value
Variant(x) == List(<<x>>)

\* bluez's ManufacturerData, a{qv}: one company key and a Variant of the byte array;
\* iterated, a dictionary yields key, value
ManufacturerData(p) == List(<<Int64(1177), Variant(ByteArray(p))>>)

\* a changed_properties map that holds just ManufacturerData
WithManufacturerData(x) == [key \in {"ManufacturerData"} |-> x]

\* a well-shaped envelope carrying payload p
Envelope(p) == WithManufacturerData(ManufacturerData(p))

\* a well-shaped envelope whose array holds wider integers than bytes
WideEnvelope(p) ==
    WithManufacturerData(List(<<Int64(1177),
        Variant(List([i \in 1 .. Len(p) |-> Int64(IF i % 2 = 0 THEN p[i] + 256 ELSE p[i] - 256)]))>>))

\* a PropertiesChanged without ManufacturerData (RSSI only)
MissingKeyEnvelope == [key \in {"RSSI"} |-> Int64(-60)]

\* ManufacturerData is no iterable
NotIterableEnvelopes == {WithManufacturerData(Str), WithManufacturerData(Int64(7))}

\* the iterable has not exactly two elements
WrongCountEnvelopes ==
    {WithManufacturerData(List(<<>>)),
     WithManufacturerData(List(<<Int64(1177)>>)),
     WithManufacturerData(List(<<Int64(1177), Variant(ByteArray(ReferencePayload)), Str>>)),
     WithManufacturerData(List(<<Int64(1177), Variant(ByteArray(ReferencePayload)),
                                 Int64(76), Variant(ByteArray(ReferencePayload))>>))}

\* the second element is no list
SecondNotListEnvelopes ==
    {WithManufacturerData(List(<<Int64(1177), Int64(5)>>)),
     WithManufacturerData(List(<<Int64(1177), Str>>))}

\* the nested list is empty
NestedEmptyEnvelopes == {WithManufacturerData(List(<<Int64(1177), List(<<>>)>>))}

\* the nested member is no sequence of integer bytes
MemberNotBytesEnvelopes ==
    {WithManufacturerData(List(<<Int64(1177), Variant(Int64(5))>>)),
     WithManufacturerData(List(<<Int64(1177), Variant(Str)>>)),
     WithManufacturerData(List(<<Int64(1177), Variant(List(<<Int64(5), Str>>))>>)),
     WithManufacturerData(List(<<Int64(1177),
         Variant(List([i \in 1 .. PAYLOAD_LEN |-> IF i = 3 THEN Str ELSE Int64(i)]))>>))}

WrongShapeEnvelopes ==
    NotIterableEnvelopes \cup WrongCountEnvelopes \cup SecondNotListEnvelopes
    \cup NestedEmptyEnvelopes \cup MemberNotBytesEnvelopes

DecoderInputs ==
    {Envelope(p) : p \in Payloads}
    \cup {WideEnvelope(ReferencePayload)}
    \cup {MissingKeyEnvelope}
    \cup WrongShapeEnvelopes

ReferenceEnvelope == Envelope(ReferencePayload)

(***************************************************************************)
(* The bridge's variables while a pure function is under check, and the    *)
(* pure functions' variables while the bridge is.                          *)
(***************************************************************************)
BridgeIdle ==
    /\ subResult = "none"
    /\ failedStep = "none"
    /\ registered = FALSE
    /\ loopState = "none"
    /\ panicCause = "none"
    /\ pending = <<>>
    /\ emitted = 0
    /\ chan = <<>>
    /\ rxAlive = FALSE
    /\ received = <<>>
    /\ decoded = <<>>
    /\ callbackResult = "none"

FnIdle == input = <<>> /\ output = <<>>

(***************************************************************************)
(* SpecDecode: from_dbus_changed_properties on every input, then           *)
(* print_sensor_data on the reading it gave.                               *)
(***************************************************************************)
InitDecode == BridgeIdle /\ input \in {<<e>> : e \in DecoderInputs} /\ output = <<>>

\* the call of from_dbus_changed_properties
Decode ==
    /\ Len(output) = 0
    /\ output' = <<from_dbus_changed_properties(input[1])>>
    /\ UNCHANGED <<input, bridgeVars>>

\* the call of print_sensor_data on the decoded reading
PrintSensorData ==
    /\ Len(output) = 1
    /\ output[1].kind = "Ok"
    /\ output' = Append(output, print_sensor_data(output[1].reading[1]))
    /\ UNCHANGED <<input, bridgeVars>>

NextDecode == Decode \/ PrintSensorData

SpecDecode == InitDecode /\ [][NextDecode]_vars

(***************************************************************************)
(* Claims on the decoder, checked under SpecDecode.                        *)
(***************************************************************************)
Decoded == Len(input) = 1 /\ Len(output) >= 1

\* C3: a well-shaped envelope whose payload has any length other than 24 (0 and
\* lengths above 24 included) gives the length error: an Err value, no panic, no
\* read outside the payload, and no reading is constructed (so nothing is printed).
C3_WrongLengthIsError ==
    \A p \in Payloads :
        (Decoded /\ input[1] = Envelope(p) /\ Len(p) # PAYLOAD_LEN) =>
            /\ output[1] = DecodeErr("Missing manufacturer data")
            /\ output[1].reading = <<>>
            /\ Len(output) = 1

C3_Witness ==
    \E p \in Payloads :
        /\ Decoded
        /\ input[1] = Envelope(p)
        /\ Len(p) > PAYLOAD_LEN
        /\ output[1].kind = "Err"

\* the accessors' values of the reference payload, acceleration aside
ReferenceView(view) ==
    /\ view.millicelcius = Value(24300)
    /\ view.celcius.num * 10 = 243 * view.celcius.den
    /\ view.humidity.num = 21396
    /\ view.humidity.num * 100 = 5349 * view.humidity.den
    /\ view.pressure = Value(100044)
    /\ view.battery = Value(2977)
    /\ view.tx_power = Value(4)
    /\ view.movement_counter = 66
    /\ view.measurement_number = 205

Printed == Len(input) = 1 /\ Len(output) = 2

\* C4 as stated: the reference payload decodes to temperature 24.3 C, humidity
\* 53.49 %, pressure 100044 Pa, acceleration (1000, -1726, 714) mG, battery 2977 mV,
\* tx power 4 dBm, movement counter 66, sequence number 205.
C4_ReferenceVectorAsStated ==
    (Printed /\ input[1] = ReferenceEnvelope) =>
        /\ ReferenceView(output[2])
        /\ output[2].acceleration = Acceleration_new(1000, -1726, 714)

\* C4 amended: the same, with acceleration (4, -4, 1036) mG: bytes 7..12 of the
\* payload are 00 04, FF FC, 04 0C.
C4_ReferenceVector ==
    (Decoded /\ input[1] = ReferenceEnvelope) =>
        /\ output[1].kind = "Ok"
        /\ Len(output) = 2 =>
            /\ ReferenceView(output[2])
            /\ output[2].acceleration = Acceleration_new(4, -4, 1036)

C4_Witness ==
    /\ Printed
    /\ input[1] = ReferenceEnvelope
    /\ output[2].acceleration.y < 0
    /\ output[2].tx_power = Value(4)

\* C10: every envelope of a wrong shape (not iterable, not exactly two elements,
\* second element no list, nested list empty, nested member no sequence of integer
\* bytes) gives an Err value and never a panic.
C10_WrongShapeIsError ==
    (Decoded /\ input[1] \in WrongShapeEnvelopes) => output[1].kind = "Err"

(***************************************************************************)
(* SpecTemperature: temperature_in_millicelcius on every i16 raw value.    *)
(***************************************************************************)
\* a reading built as tests::test_ruuvitag_sensor_data_v5_min builds one, with the
\* given raw temperature, power_info and mac
ReadingWith(temperature, power_info, mac) ==
    SensorDataV5_new(temperature, 0, 0,
                     Acceleration_new(MinSigned(16), MinSigned(16), MinSigned(16)),
                     power_info, 0, 0, mac)

ZeroMac == <<0, 0, 0, 0, 0, 0>>

InitTemperature ==
    /\ BridgeIdle
    /\ input \in {<<ReadingWith(t, 0, ZeroMac)>> : t \in MinSigned(16) .. MaxSigned(16)}
    /\ output = <<>>

CallTemperature ==
    /\ Len(output) = 0
    /\ output' = <<temperature_in_millicelcius(input[1])>>
    /\ UNCHANGED <<input, bridgeVars>>

NextTemperature == CallTemperature

SpecTemperature == InitTemperature /\ [][NextTemperature]_vars

Called == Len(input) = 1 /\ Len(output) = 1

\* C5: for every raw temperature of the i16 range, temperature_in_millicelcius
\* returns exactly raw * 5, an i32 value reached without overflow, wrap or panic;
\* raw 0x8000 (-32768) gives -163840.
C5_MillicelciusExact ==
    Called =>
        /\ output[1].kind = "Ok"
        /\ output[1].v = input[1].temperature * 5
        /\ FitsSigned(output[1].v, 32)
        /\ input[1].temperature = -32768 => output[1].v = -163840

C5_Witness == Called /\ input[1].temperature = -32768 /\ output[1] = Value(-163840)

(***************************************************************************)
(* SpecPower: get_battery_voltage and get_tx_power on every u16            *)
(* power_info.                                                             *)
(***************************************************************************)
InitPower ==
    /\ BridgeIdle
    /\ input \in {<<ReadingWith(0, p, ZeroMac)>> : p \in 0 .. MaxSigned(16) * 2 + 1}
    /\ output = <<>>

CallBatteryVoltage ==
    /\ Len(output) = 0
    /\ output' = <<[fn |-> "get_battery_voltage", r |-> get_battery_voltage(input[1])]>>
    /\ UNCHANGED <<input, bridgeVars>>

CallTxPower ==
    /\ Len(output) = 0
    /\ output' = <<[fn |-> "get_tx_power", r |-> get_tx_power(input[1])]>>
    /\ UNCHANGED <<input, bridgeVars>>

NextPower == CallBatteryVoltage \/ CallTxPower

SpecPower == InitPower /\ [][NextPower]_vars

\* C6: for every u16 power_info, get_battery_voltage returns (power_info >> 5) +
\* 1600 within u16 and get_tx_power returns ((power_info & 0x1F) * 2) - 40 within
\* i8, with no overflow; 0x0000 gives 1600 mV and -40 dBm, 0xFFFF gives 3647 mV and
\* 22 dBm, and the results stay within 1600..3647 mV and -40..22 dBm.
C6_PowerInfoUnpacked ==
    Called =>
        LET p == input[1].power_info
            r == output[1].r
        IN  /\ r.kind = "Ok"
            /\ output[1].fn = "get_battery_voltage" =>
                /\ r.v = (p \div 32) + 1600
                /\ r.v \in 1600 .. 3647
                /\ FitsUnsigned(r.v, 16)
                /\ p = 0 => r.v = 1600
                /\ p = 65535 => r.v = 3647
            /\ output[1].fn = "get_tx_power" =>
                /\ r.v = ((p % 32) * 2) - 40
                /\ r.v \in -40 .. 22
                /\ FitsSigned(r.v, 8)
                /\ p = 0 => r.v = -40
                /\ p = 65535 => r.v = 22

C6_Witness ==
    /\ Called
    /\ input[1].power_info = 65535
    /\ output[1] = [fn |-> "get_tx_power", r |-> Value(22)]

(***************************************************************************)
(* SpecMac: mac_as_str on device addresses.                                *)
(***************************************************************************)
\* 0xCC, 0x6F, 0x70, 0xEE, 0x4C, 0xAD
ReferenceMac == <<204, 111, 112, 238, 76, 173>>

\* the reference address with one octet replaced by every byte, every address of
\* the octets 0x00, 0x0A and 0xFF, and the address decoded from the reference payload
MacInputs ==
    {[ReferenceMac EXCEPT ![i] = b] : i \in 1 .. 6, b \in 0 .. 255}
    \cup [1 .. 6 -> {0, 10, 255}]
    \cup {from_dbus_changed_properties(ReferenceEnvelope).reading[1].mac}

InitMac ==
    /\ BridgeIdle
    /\ input \in {<<ReadingWith(0, 0, m)>> : m \in MacInputs}
    /\ output = <<>>

CallMacAsStr ==
    /\ Len(output) = 0
    /\ output' = <<mac_as_str(input[1])>>
    /\ UNCHANGED <<input, bridgeVars>>

NextMac == CallMacAsStr

SpecMac == InitMac /\ [][NextMac]_vars

\* the value of an uppercase hexadecimal digit; 16 for any other character
HexValue(c) ==
    IF \E d \in 1 .. 16 : HexDigitsUpper[d] = c
    THEN (CHOOSE d \in 1 .. 16 : HexDigitsUpper[d] = c) - 1
    ELSE 16

\* C7: mac_as_str returns exactly 17 characters: six two-digit uppercase
\* hexadecimal octets, zero-padded, in the stored byte order (bytes 18..23 of the
\* payload), joined by ':'; CC 6F 70 EE 4C AD renders as CC:6F:70:EE:4C:AD.
C7_MacFormat ==
    Called =>
        LET str == output[1]
            mac == input[1].mac
        IN  /\ Len(str) = 17
            /\ \A i \in {3, 6, 9, 12, 15} : str[i] = ":"
            /\ \A o \in 1 .. 6 :
                /\ HexValue(str[3 * o - 2]) < 16
                /\ HexValue(str[3 * o - 1]) < 16
                /\ HexValue(str[3 * o - 2]) * 16 + HexValue(str[3 * o - 1]) = mac[o]
            /\ mac = ReferenceMac =>
                str = <<"C", "C", ":", "6", "F", ":", "7", "0", ":", "E", "E", ":",
                        "4", "C", ":", "A", "D">>
            /\ mac = SubSeq(ReferencePayload, 19, 24) =>
                str = <<"C", "B", ":", "B", "8", ":", "3", "3", ":", "4", "C", ":",
                        "8", "8", ":", "4", "F">>

C7_Witness ==
    /\ Called
    /\ input[1].mac = ReferenceMac
    /\ Len(output[1]) = 17
    /\ output[1][1] = "C"

(***************************************************************************)
(* Spec: the subscription bridge, subscribe_ruuvitag.                      *)
(***************************************************************************)
\* the gateway emits at most MaxEvents signals
MaxEvents == 4

\* the signals the gateway emits for the watched device: two valid envelopes with
\* different readings, and three that fail to decode (ManufacturerData absent,
\* a payload of 23 bytes, ManufacturerData not iterable)
BridgeEnvelopes ==
    {ReferenceEnvelope,
     Envelope(FillPayload(0, PAYLOAD_LEN)),
     MissingKeyEnvelope,
     Envelope(FillPayload(0, PAYLOAD_LEN - 1)),
     WithManufacturerData(Str)}

\* from_dbus_changed_properties on each signal the gateway emits, tabulated
CallbackDecode == [e \in BridgeEnvelopes |-> from_dbus_changed_properties(e)]

\* the calls of the setup that can fail, in the order they are made
SetupSteps == <<"new_system", "set_powered", "start_discovery", "match_signal">>
SetupFailures == {SetupSteps[i] : i \in 1 .. Len(SetupSteps)} \cup {"none"}

Init == BridgeIdle /\ FnIdle

\* connect_bluetooth, given the call that fails:
\* Connection::new_system().unwrap(), then two method_call(...)?
connect_bluetooth(failAt) ==
    IF failAt = "new_system" THEN "Panic"
    ELSE IF failAt \in {"set_powered", "start_discovery"} THEN "Err"
    ELSE "Ok"

\* the mutant: the newest message first
ChannelSendFront(queue, x) == <<x>> \o queue

\* tx.send(x) on std::sync::mpsc while the receiver exists
ChannelSend(queue, x) == Append(queue, x)

\* subscribe_ruuvitag, given which setup call fails (if any)
Subscribe(failAt) ==
    /\ subResult = "none"
    /\ failedStep' = failAt
    /\ LET conn == connect_bluetooth(failAt)
       IN  IF conn # "Ok"
           THEN \* let conn = connect_bluetooth()?; tx and rx are dropped
                /\ subResult' = conn
                /\ UNCHANGED <<registered, loopState, rxAlive>>
           ELSE \* let _id = proxy.match_signal(..): the Result is not looked at;
                \* tokio::spawn(loop ..); Ok(rx)
                /\ registered' = (failAt # "match_signal")
                /\ loopState' = "running"
                /\ rxAlive' = TRUE
                /\ subResult' = "Ok"
    /\ UNCHANGED <<panicCause, pending, emitted, chan, received, decoded, callbackResult,
                   fnVars>>

\* the gateway sends a PropertiesChanged signal of the watched device; the bus
\* delivers it to the connection while the match is registered
GatewayEmit(e) ==
    /\ loopState = "running"
    /\ registered
    /\ emitted < MaxEvents
    /\ pending' = Append(pending, e)
    /\ emitted' = emitted + 1
    /\ UNCHANGED <<subResult, failedStep, registered, loopState, panicCause, chan,
                   rxAlive, received, decoded, callbackResult, fnVars>>

\* the mutant: a bounded channel of one slot; send waits while it is full
ChannelCanSendBounded(queue) == Len(queue) < 1

\* tx.send never waits: channel() is the unbounded, asynchronous channel
ChannelCanSend(queue) == TRUE

\* the mutant: the callback asks for no further signals
CallbackReturnsStop == FALSE

\* the value the callback returns, `true`: keep the match
CallbackReturn == TRUE

\* one iteration of the poll loop that finds a signal: conn.process(..).unwrap()
\* runs the callback on it:
\*   let tag_data = SensorDataV5::from_dbus_changed_properties(..).unwrap();
\*   tx.send(tag_data).unwrap();
\*   true
\* A panic of the callback unwinds through process and ends the spawned task.
\* A callback that returns false has its match removed by the connection.
Process ==
    /\ loopState = "running"
    /\ pending # <<>>
    /\ (CallbackDecode[Head(pending)].kind = "Ok" /\ rxAlive) => ChannelCanSend(chan)
    /\ pending' = Tail(pending)
    /\ LET r == CallbackDecode[Head(pending)]
       IN  IF r.kind # "Ok"
           THEN /\ loopState' = "panicked"
                /\ panicCause' = "decode"
                /\ callbackResult' = "panic"
                /\ UNCHANGED <<chan, decoded, registered>>
           ELSE /\ decoded' = Append(decoded, r.reading[1])
                /\ IF rxAlive
                   THEN /\ chan' = ChannelSend(chan, r.reading[1])
                        /\ callbackResult' = IF CallbackReturn THEN "continue" ELSE "stop"
                        /\ registered' = (registered /\ CallbackReturn)
                        /\ UNCHANGED <<loopState, panicCause>>
                   ELSE /\ loopState' = "panicked"
                        /\ panicCause' = "send"
                        /\ callbackResult' = "panic"
                        /\ UNCHANGED <<chan, registered>>
    /\ UNCHANGED <<subResult, failedStep, emitted, rxAlive, received, fnVars>>

\* one iteration of the poll loop in which conn.process returns Err (the bus
\* connection is lost): the unwrap panics
ProcessError ==
    /\ loopState = "running"
    /\ loopState' = "panicked"
    /\ panicCause' = "process"
    /\ UNCHANGED <<subResult, failedStep, registered, pending, emitted, chan, rxAlive,
                   received, decoded, callbackResult, fnVars>>

\* the consumer's rx.recv() when a reading is queued
Recv ==
    /\ rxAlive
    /\ chan # <<>>
    /\ received' = Append(received, Head(chan))
    /\ chan' = Tail(chan)
    /\ UNCHANGED <<subResult, failedStep, registered, loopState, panicCause, pending,
                   emitted, rxAlive, decoded, callbackResult, fnVars>>

\* the consumer drops the Receiver; what is queued is dropped with it
DropRx ==
    /\ rxAlive
    /\ rxAlive' = FALSE
    /\ chan' = <<>>
    /\ UNCHANGED <<subResult, failedStep, registered, loopState, panicCause, pending,
                   emitted, received, decoded, callbackResult, fnVars>>

Next ==
    \/ \E failAt \in SetupFailures : Subscribe(failAt)
    \/ \E e \in BridgeEnvelopes : GatewayEmit(e)
    \/ Process
    \/ ProcessError
    \/ Recv
    \/ DropRx

Spec == Init /\ [][Next]_vars

(***************************************************************************)
(* Claims on the bridge, checked under Spec.                               *)
(***************************************************************************)
IsPrefix(s, t) == Len(s) <= Len(t) /\ SubSeq(t, 1, Len(s)) = s

\* C1: an event whose envelope fails to decode is dropped and never stops or
\* crashes the poll loop.
C1_DecodeFailureNeverStopsLoop == ~(loopState = "panicked" /\ panicCause = "decode")

\* C2: what the consumer has received is a prefix of the readings decoded, in the
\* order the poll loop processed them; while the receiver exists, received followed
\* by what is queued is exactly the decoded sequence (nothing reordered, duplicated
\* or lost between send and recv).
C2_ReceivedIsPrefixOfDecoded ==
    /\ IsPrefix(received, decoded)
    /\ rxAlive => received \o chan = decoded

C2_Witness ==
    /\ Len(received) >= 2
    /\ received[1] # received[2]
    /\ Len(decoded) > Len(received)

\* C8: once the consumer has dropped the receiver, no failed send panics the poll
\* loop.
C8_DroppedReceiverNeverPanicsLoop == ~(loopState = "panicked" /\ panicCause = "send")

\* C9: every failure of a setup call (new_system, set_powered, start_discovery,
\* match_signal) reaches the caller as Err: no panic, no receiver, no poll loop.
C9_SetupFailureIsErr ==
    failedStep # "none" => (subResult = "Err" /\ loopState = "none" /\ ~rxAlive)

\* C11: the callback returns "continue" (true) on every invocation, so after any
\* run of the callback the match is still registered and the next signal is
\* delivered to it again.
C11_CallbackAlwaysContinues ==
    callbackResult # "none" => (callbackResult = "continue" /\ registered)

(***************************************************************************)
(* SpecLive: the bridge with the poll loop scheduled fairly and a consumer *)
(* that calls recv whenever a reading is queued.                           *)
(***************************************************************************)
SpecLive == Init /\ [][Next]_vars /\ WF_vars(Process) /\ WF_vars(Recv)

\* C12: the producer never waits for the consumer: whenever the running loop has
\* a signal to handle, the iteration (the send with it) can complete, however many
\* readings are queued; and every reading decoded is eventually received by the
\* consumer, as long as the consumer keeps its receiver.
C12_ProducerNeverBlocksAndDelivers ==
    /\ []((loopState = "running" /\ pending # <<>>) => ENABLED Process)
    /\ \A n \in 1 .. MaxEvents :
           (Len(decoded) >= n) ~> (Len(received) >= n \/ ~rxAlive)

C12_Witness ==
    /\ rxAlive
    /\ Len(received) >= 1
    /\ Len(chan) >= 3
    /\ loopState = "running"

\* the bridge's lifecycle as the bridge's state shows it; Subscribing is the inside
\* of subscribe_ruuvitag
Lifecycle ==
    IF subResult = "none" THEN "Created"
    ELSE IF loopState = "running" THEN "Streaming"
    ELSE "Closed"

\* C13: the bridge is in Streaming (poll loop running) only after the registration
\* of the signal match succeeded.
C13_StreamingOnlyAfterRegistration == Lifecycle = "Streaming" => registered

====
